---- MODULE Spec2Model ----
(***************************************************************************)
(* Model of sentry/tasks/integrations.py: the outbound issue-sync tasks,   *)
(* the status fan-out, the repository migration and the VSTS subscription  *)
(* sweep, each run by a worker under its instrumented_task / retry         *)
(* decorators.                                                             *)
(*                                                                         *)
(* A task body runs to completion on one worker, so one execution of a     *)
(* task is one action.  What the collaborators answer (should_sync,        *)
(* has_repo_access, the provider's subscription status, a call raising)    *)
(* is an input of the action.  The opaque payload of post_comment          *)
(* (data['text']) decides nothing and is left out of the job record.       *)
(* The subscription check, the one body that reads and then writes a       *)
(* shared row, is also modelled call by call on two workers (SpecRace).    *)
(***************************************************************************)
EXTENDS Integers, FiniteSets, Sequences, Bags

\* ------------------------------------------------------------------ bounds
MaxExternalIssue == 2
MaxIntegration == 2
MaxTime == 1

\* ---------------------------------------------------------------- constants
\* max_retries=5 of every instrumented_task in the file
max_retries == 5
\* timedelta(hours=6)
UpdateIntervalHours == 6
\* one step of the model's clock, in hours
TickHours == UpdateIntervalHours \div 2

None == 0
ExternalIssueIds == 1..MaxExternalIssue
IntegrationIds == 1..MaxIntegration
OrganizationIds == {1}
UserIds == {1}
GroupIds == {1, 2}
ProjectIds == {1, 2}
RepositoryIds == {1}

\* GroupStatus
UNRESOLVED == "UNRESOLVED"
RESOLVED == "RESOLVED"
IGNORED == "IGNORED"
GroupStatus == {UNRESOLVED, RESOLVED, IGNORED}

\* ObjectStatus
VISIBLE == "VISIBLE"
DISABLED == "DISABLED"
PENDING_DELETION == "PENDING_DELETION"
ObjectStatus == {VISIBLE, DISABLED, PENDING_DELETION}

VARIABLES
    ExternalIssue,            \* id -> [organization_id, integration_id]
    Organization,             \* the ids that resolve
    Integration,              \* id -> [provider]
    User,                     \* the ids that resolve
    Group,                    \* id -> [status, project_id, organization]
    GroupLink,                \* rows [project_id, group_id, linked_type, linked_id]
    Repository,               \* id -> [integration_id, provider, status]
    OrganizationIntegration,  \* rows [organization_id, integration]
    metadata,                 \* integration id -> [subscription, check]
    features,                 \* organizations with 'organizations:integrations-issue-sync'
    now,                      \* datetime.now(), in hours
    queue,                    \* the 'integrations' queue: a bag of jobs
    workers,                  \* worker -> the execution it is in the middle of
    last                      \* the most recent execution of a task

tables == <<ExternalIssue, Organization, Integration, User, Group, GroupLink,
            OrganizationIntegration, features>>
vars == <<ExternalIssue, Organization, Integration, User, Group, GroupLink,
          Repository, OrganizationIntegration, metadata, features, now, queue,
          workers, last>>

\* ------------------------------------------------------------------- jobs
\* metadata without a 'subscription' key; check = NoCheck is a subscription
\* without a 'check' key
NoCheck == 0 - 1
NoMetadata == [subscription |-> FALSE, check |-> NoCheck]

\* The keyword arguments of a job and its request.retries.  integration is
\* the Integration object a vsts_subscription_check job is handed: its id
\* and the metadata it had when the job was submitted.
Job(kind) ==
    [kind |-> kind, external_issue_id |-> None, user_id |-> None, assign |-> FALSE,
     group_id |-> None, project_id |-> None, integration_id |-> None,
     repo_id |-> None, organization_id |-> None, integration |-> NoMetadata,
     retries |-> 0]

PostCommentJobs ==
    {[Job("post_comment") EXCEPT !.external_issue_id = e, !.user_id = u] :
        e \in ExternalIssueIds, u \in UserIds}

SyncMetadataJobs ==
    {[Job("sync_metadata") EXCEPT !.integration_id = i] : i \in IntegrationIds}

SyncAssigneeJobs ==
    {[Job("sync_assignee_outbound") EXCEPT
        !.external_issue_id = e, !.user_id = u, !.assign = a] :
        e \in ExternalIssueIds, u \in UserIds \cup {None}, a \in BOOLEAN}

SyncStatusJob(g, e) ==
    [Job("sync_status_outbound") EXCEPT !.group_id = g, !.external_issue_id = e]

SyncStatusJobs ==
    {SyncStatusJob(g, e) : g \in GroupIds, e \in ExternalIssueIds}

KickOffJobs ==
    {[Job("kick_off_status_syncs") EXCEPT !.project_id = p, !.group_id = g] :
        p \in ProjectIds, g \in GroupIds}

MigrateRepoJobs ==
    {[Job("migrate_repo") EXCEPT
        !.repo_id = r, !.integration_id = i, !.organization_id = o] :
        r \in RepositoryIds, i \in IntegrationIds, o \in OrganizationIds}

KickoffVstsJob == Job("kickoff_vsts_subscription_check")

VstsCheckJob(i, o, meta) ==
    [Job("vsts_subscription_check") EXCEPT
        !.integration_id = i, !.organization_id = o, !.integration = meta]

\* ------------------------------------------------------- failures and retry
AllExceptions ==
    {"ExternalIssue.DoesNotExist", "Integration.DoesNotExist",
     "Organization.DoesNotExist", "User.DoesNotExist", "Repository.DoesNotExist",
     "IntegrationError", "ApiError", "ApiUnauthorized", "AttributeError",
     "KeyError", "Exception"}

\* @retry(exclude=...) of each task
exclude(kind) ==
    CASE kind = "post_comment" ->
            {"ExternalIssue.DoesNotExist", "Integration.DoesNotExist"}
      [] kind = "sync_metadata" -> {"Integration.DoesNotExist"}
      [] kind = "sync_assignee_outbound" ->
            {"ExternalIssue.DoesNotExist", "Integration.DoesNotExist",
             "User.DoesNotExist", "Organization.DoesNotExist"}
      [] kind = "sync_status_outbound" ->
            {"ExternalIssue.DoesNotExist", "Integration.DoesNotExist"}
      [] kind = "kick_off_status_syncs" -> {}
      [] kind = "migrate_repo" ->
            {"Integration.DoesNotExist", "Repository.DoesNotExist",
             "Organization.DoesNotExist"}
      [] kind = "kickoff_vsts_subscription_check" -> {}
      [] kind = "vsts_subscription_check" -> {"ApiError", "ApiUnauthorized"}

\* on with sync_metadata's IntegrationError read as an exclusion
on_but_integration_error(kind) ==
    IF kind = "sync_metadata" THEN AllExceptions \ {"IntegrationError"}
    ELSE AllExceptions

\* @retry(on=...) of each task; the default is (Exception,)
on(kind) ==
    IF kind = "sync_metadata" THEN {"IntegrationError"} ELSE AllExceptions

\* sentry.tasks.base.retry: an excluded failure is raised, a failure of the
\* 'on' classes asks for a retry, any other failure is raised
classify(kind, exc) ==
    IF exc = "none" THEN "return"
    ELSE IF exc \in exclude(kind) THEN "raise"
    ELSE IF exc \in on(kind) THEN "retry"
    ELSE "raise"

\* requeue with the budget off by one: a retry is still granted at max_retries
requeue_once_more(job, exc) ==
    classify(job.kind, exc) = "retry" /\ job.retries <= max_retries

\* Task.retry: the job is queued again while its retries have not reached
\* max_retries; request.retries is 0 on the first execution
requeue(job, exc) ==
    classify(job.kind, exc) = "retry" /\ job.retries < max_retries

\* --------------------------------------------------- the result of one body
\* What a body raised ("none": it returned), the collaborator calls it made
\* in order, the jobs it submitted, and the two tables a body can write.
Result(raised, calls) ==
    [raised |-> raised, calls |-> calls, submitted |-> EmptyBag,
     Repository |-> Repository, metadata |-> metadata]
Returned(calls) == Result("none", calls)
Raised(exc, calls) == Result(exc, calls)

\* has_issue_sync with the feature flag not consulted
has_issue_sync_ignored(organization) == TRUE

has_issue_sync(organization) == organization \in features

\* what a collaborator's call can do: return, or raise
CallOutcomes == {"ok", "Exception"}

\* the kinds an installation is asked about, and the call that asks
SyncKinds == {"comment", "outbound_assignee", "outbound_status"}
should_sync_call(kind) ==
    CASE kind = "comment" -> "should_sync('comment')"
      [] kind = "outbound_assignee" -> "should_sync('outbound_assignee')"
      [] kind = "outbound_status" -> "should_sync('outbound_status')"

\* post_comment with the analytics record emitted before the installation
\* is called
post_comment_recording_first(job, should_sync, call) ==
    LET e == job.external_issue_id IN
    IF e \notin DOMAIN ExternalIssue THEN Raised("ExternalIssue.DoesNotExist", <<>>)
    ELSE IF ExternalIssue[e].organization_id \notin Organization
        THEN Raised("Organization.DoesNotExist", <<>>)
    ELSE IF ~has_issue_sync(ExternalIssue[e].organization_id) THEN Returned(<<>>)
    ELSE IF ExternalIssue[e].integration_id \notin DOMAIN Integration
        THEN Raised("Integration.DoesNotExist", <<>>)
    ELSE IF should_sync["comment"]
        THEN IF call = "ok"
             THEN Returned(<<should_sync_call("comment"), "analytics.record",
                             "create_comment">>)
             ELSE Raised(call, <<should_sync_call("comment"), "analytics.record",
                                 "create_comment">>)
    ELSE Returned(<<should_sync_call("comment")>>)

\* post_comment(external_issue_id, data, user_id); should_sync is what the
\* installation answers for each kind, call what create_comment does
post_comment(job, should_sync, call) ==
    LET e == job.external_issue_id IN
    IF e \notin DOMAIN ExternalIssue THEN Raised("ExternalIssue.DoesNotExist", <<>>)
    ELSE IF ExternalIssue[e].organization_id \notin Organization
        THEN Raised("Organization.DoesNotExist", <<>>)
    ELSE IF ~has_issue_sync(ExternalIssue[e].organization_id) THEN Returned(<<>>)
    ELSE IF ExternalIssue[e].integration_id \notin DOMAIN Integration
        THEN Raised("Integration.DoesNotExist", <<>>)
    ELSE IF should_sync["comment"]
        THEN IF call = "ok"
             THEN Returned(<<should_sync_call("comment"), "create_comment",
                             "analytics.record">>)
             ELSE Raised(call, <<should_sync_call("comment"), "create_comment">>)
    ELSE Returned(<<should_sync_call("comment")>>)

\* sync_metadata(integration_id)
sync_metadata(job, call) ==
    IF job.integration_id \notin DOMAIN Integration
        THEN Raised("Integration.DoesNotExist", <<>>)
    ELSE IF call = "ok" THEN Returned(<<"sync_metadata">>)
    ELSE Raised(call, <<"sync_metadata">>)

\* sync_assignee_outbound(external_issue_id, user_id, assign)
sync_assignee_outbound(job, should_sync, call) ==
    LET e == job.external_issue_id IN
    IF e \notin DOMAIN ExternalIssue THEN Raised("ExternalIssue.DoesNotExist", <<>>)
    ELSE IF ExternalIssue[e].organization_id \notin Organization
        THEN Raised("Organization.DoesNotExist", <<>>)
    ELSE IF ~has_issue_sync(ExternalIssue[e].organization_id) THEN Returned(<<>>)
    ELSE IF ExternalIssue[e].integration_id \notin DOMAIN Integration
        THEN Raised("Integration.DoesNotExist", <<>>)
    ELSE IF job.user_id # None /\ job.user_id \notin User
        THEN Raised("User.DoesNotExist", <<>>)
    ELSE IF should_sync["outbound_assignee"]
        THEN IF call = "ok"
             THEN Returned(<<should_sync_call("outbound_assignee"),
                             "sync_assignee_outbound", "analytics.record">>)
             ELSE Raised(call, <<should_sync_call("outbound_assignee"),
                                 "sync_assignee_outbound">>)
    ELSE Returned(<<should_sync_call("outbound_assignee")>>)

\* sync_status_outbound with the Group looked up by id alone
sync_status_outbound_any_status(job, should_sync, call) ==
    LET g == job.group_id
        e == job.external_issue_id IN
    IF g \notin DOMAIN Group THEN Returned(<<>>)
    ELSE IF ~has_issue_sync(Group[g].organization) THEN Returned(<<>>)
    ELSE IF e \notin DOMAIN ExternalIssue THEN Raised("ExternalIssue.DoesNotExist", <<>>)
    ELSE IF ExternalIssue[e].integration_id \notin DOMAIN Integration
        THEN Raised("Integration.DoesNotExist", <<>>)
    ELSE IF should_sync["outbound_status"]
        THEN IF call = "ok"
             THEN Returned(<<should_sync_call("outbound_status"),
                             "sync_status_outbound", "analytics.record">>)
             ELSE Raised(call, <<should_sync_call("outbound_status"),
                                 "sync_status_outbound">>)
    ELSE Returned(<<should_sync_call("outbound_status")>>)

\* sync_status_outbound(group_id, external_issue_id)
sync_status_outbound(job, should_sync, call) ==
    LET g == job.group_id
        e == job.external_issue_id IN
    IF ~(g \in DOMAIN Group /\ Group[g].status \in {UNRESOLVED, RESOLVED})
        THEN Returned(<<>>)
    ELSE IF ~has_issue_sync(Group[g].organization) THEN Returned(<<>>)
    ELSE IF e \notin DOMAIN ExternalIssue THEN Raised("ExternalIssue.DoesNotExist", <<>>)
    ELSE IF ExternalIssue[e].integration_id \notin DOMAIN Integration
        THEN Raised("Integration.DoesNotExist", <<>>)
    ELSE IF should_sync["outbound_status"]
        THEN IF call = "ok"
             THEN Returned(<<should_sync_call("outbound_status"),
                             "sync_status_outbound", "analytics.record">>)
             ELSE Raised(call, <<should_sync_call("outbound_status"),
                                 "sync_status_outbound">>)
    ELSE Returned(<<should_sync_call("outbound_status")>>)

\* external_issue_ids without the linked_type filter
external_issue_ids_any_type(project_id, group_id) ==
    {l \in GroupLink : l.project_id = project_id /\ l.group_id = group_id}

\* kick_off_status_syncs(project_id, group_id): the GroupLink rows of
\* linked_type issue of the (project, group)
external_issue_ids(project_id, group_id) ==
    {l \in GroupLink : /\ l.project_id = project_id
                       /\ l.group_id = group_id
                       /\ l.linked_type = "issue"}

\* one sync_status_outbound.apply_async per row of the query
RECURSIVE apply_async_each(_, _)
apply_async_each(group_id, rows) ==
    IF rows = {} THEN EmptyBag
    ELSE LET l == CHOOSE r \in rows : TRUE IN
         SetToBag({SyncStatusJob(group_id, l.linked_id)})
            (+) apply_async_each(group_id, rows \ {l})

\* query is what the GroupLink query does: "ok", or the failure it raises
kick_off_status_syncs(job, query) ==
    IF query # "ok" THEN Raised(query, <<>>)
    ELSE [Returned(<<>>) EXCEPT
            !.submitted = apply_async_each(job.group_id,
                              external_issue_ids(job.project_id, job.group_id))]

\* repo.provider = 'integrations:%s' % (integration.provider,)
provider_tag(provider) ==
    CASE provider = "vsts" -> "integrations:vsts"
      [] provider = "jira" -> "integrations:jira"

\* migrate_repo migrating whatever has_repo_access answers
migrate_repo_without_access(job, has_repo_access, migrator) ==
    LET integration_id == job.integration_id
        repo == Repository[job.repo_id]
        saved ==
            [Repository EXCEPT ![job.repo_id] =
                [integration_id |-> integration_id,
                 provider |-> provider_tag(Integration[integration_id].provider),
                 status |-> IF repo.status = DISABLED THEN VISIBLE ELSE repo.status]]
    IN
    IF integration_id \notin DOMAIN Integration
        THEN Raised("Integration.DoesNotExist", <<>>)
    ELSE IF job.repo_id \notin DOMAIN Repository
        THEN Raised("Repository.DoesNotExist", <<>>)
    ELSE IF job.organization_id \notin Organization
        THEN [Raised("Organization.DoesNotExist", <<"has_repo_access", "save">>)
                EXCEPT !.Repository = saved]
    ELSE IF migrator = "ok"
        THEN [Returned(<<"has_repo_access", "save", "Migrator.run">>)
                EXCEPT !.Repository = saved]
    ELSE [Raised(migrator, <<"has_repo_access", "save", "Migrator.run">>)
            EXCEPT !.Repository = saved]

\* migrate_repo with the status set to VISIBLE whatever it was
migrate_repo_undelete(job, has_repo_access, migrator) ==
    LET integration_id == job.integration_id
        saved ==
            [Repository EXCEPT ![job.repo_id] =
                [integration_id |-> integration_id,
                 provider |-> provider_tag(Integration[integration_id].provider),
                 status |-> VISIBLE]]
    IN
    IF integration_id \notin DOMAIN Integration
        THEN Raised("Integration.DoesNotExist", <<>>)
    ELSE IF job.repo_id \notin DOMAIN Repository
        THEN Raised("Repository.DoesNotExist", <<>>)
    ELSE IF ~has_repo_access THEN Returned(<<"has_repo_access">>)
    ELSE IF job.organization_id \notin Organization
        THEN [Raised("Organization.DoesNotExist", <<"has_repo_access", "save">>)
                EXCEPT !.Repository = saved]
    ELSE IF migrator = "ok"
        THEN [Returned(<<"has_repo_access", "save", "Migrator.run">>)
                EXCEPT !.Repository = saved]
    ELSE [Raised(migrator, <<"has_repo_access", "save", "Migrator.run">>)
            EXCEPT !.Repository = saved]

\* migrate_repo(repo_id, integration_id, organization_id); migrator is what
\* Migrator.run does
migrate_repo(job, has_repo_access, migrator) ==
    LET integration_id == job.integration_id
        repo == Repository[job.repo_id]
        saved ==
            [Repository EXCEPT ![job.repo_id] =
                [integration_id |-> integration_id,
                 provider |-> provider_tag(Integration[integration_id].provider),
                 status |-> IF repo.status = DISABLED THEN VISIBLE ELSE repo.status]]
    IN
    IF integration_id \notin DOMAIN Integration
        THEN Raised("Integration.DoesNotExist", <<>>)
    ELSE IF job.repo_id \notin DOMAIN Repository
        THEN Raised("Repository.DoesNotExist", <<>>)
    ELSE IF ~has_repo_access THEN Returned(<<"has_repo_access">>)
    ELSE IF job.organization_id \notin Organization
        THEN [Raised("Organization.DoesNotExist", <<"has_repo_access", "save">>)
                EXCEPT !.Repository = saved]
    ELSE IF migrator = "ok"
        THEN [Returned(<<"has_repo_access", "save", "Migrator.run">>)
                EXCEPT !.Repository = saved]
    ELSE [Raised(migrator, <<"has_repo_access", "save", "Migrator.run">>)
            EXCEPT !.Repository = saved]

\* What the provider's client does in one check: get_subscription raises, or
\* returns a status; update_subscription is reached only for disabledBySystem.
ClientFailures == {"ApiError", "ApiUnauthorized", "Exception"}
SubscriptionStatus == {"enabled", "onProbation", "disabledBySystem"}
NoAnswer == [get |-> "", status |-> "", update |-> ""]
ClientAnswers ==
    {[get |-> f, status |-> "", update |-> ""] : f \in ClientFailures}
    \cup {[get |-> "ok", status |-> s, update |-> ""] :
            s \in SubscriptionStatus \ {"disabledBySystem"}}
    \cup {[get |-> "ok", status |-> "disabledBySystem", update |-> u] :
            u \in {"ok"} \cup ClientFailures}

\* vsts_subscription_check renewing whenever the status is not 'enabled'
vsts_subscription_check_any_status(id, integration, client) ==
    IF ~integration.subscription THEN Raised("KeyError", <<>>)
    ELSE IF client.get # "ok" THEN Raised(client.get, <<"get_subscription">>)
    ELSE IF client.status = "enabled" THEN Returned(<<"get_subscription">>)
    ELSE IF client.update \notin {"ok", ""}
        THEN Raised(client.update, <<"get_subscription", "update_subscription">>)
    ELSE [Returned(<<"get_subscription", "update_subscription", "save">>) EXCEPT
            !.metadata = [metadata EXCEPT ![id] = [integration EXCEPT !.check = now]]]

\* vsts_subscription_check(integration, organization_id): integration is the
\* object the caller holds (its id and its metadata), client is what the
\* provider's client does.  save() writes the object the job holds.
vsts_subscription_check(id, integration, client) ==
    IF ~integration.subscription THEN Raised("KeyError", <<>>)
    ELSE IF client.get # "ok" THEN Raised(client.get, <<"get_subscription">>)
    ELSE IF client.status # "disabledBySystem"
        THEN Returned(<<"get_subscription">>)
    ELSE IF client.update # "ok"
        THEN Raised(client.update, <<"get_subscription", "update_subscription">>)
    ELSE [Returned(<<"get_subscription", "update_subscription", "save">>) EXCEPT
            !.metadata = [metadata EXCEPT ![id] = [integration EXCEPT !.check = now]]]

\* the rows the sweep's query returns
organization_integrations ==
    {oi \in OrganizationIntegration : Integration[oi.integration].provider = "vsts"}

update_interval == now - UpdateIntervalHours

\* the rows the sweep's loop does not skip: a 'subscription' key, and no
\* 'check' key or a check that is not after update_interval
due(oi) ==
    LET subscription == metadata[oi.integration] IN
    /\ subscription.subscription
    /\ ~(subscription.check # NoCheck /\ subscription.check > update_interval)

NoRow == [organization_id |-> None, integration |-> None]

\* the row the loop reaches first that it does not skip: the query states no
\* order, so any due row
FirstDue ==
    IF {oi \in organization_integrations : due(oi)} = {} THEN {NoRow}
    ELSE {oi \in organization_integrations : due(oi)}

\* kickoff_vsts_subscription_check().  The loop calls the task object itself,
\* vsts_subscription_check(integration, organization_id), which runs the
\* check in place and returns None; .apply_async of None then raises
\* AttributeError, unless the check raised first.  No job is submitted and
\* no later row is reached.
kickoff_vsts_subscription_check(first, client) ==
    IF first = NoRow THEN Returned(<<>>)
    ELSE LET check == vsts_subscription_check(first.integration,
                          metadata[first.integration], client) IN
         IF check.raised = "none"
         THEN [check EXCEPT !.raised = "AttributeError"]
         ELSE check

\* ------------------------------------------------------------- the worker
NoJob == Job("none")

\* the workers that consume the 'integrations' queue
Workers == {1, 2}

\* the Integration object an execution holds
NoIntegration == [id |-> None, metadata |-> NoMetadata]

\* a worker that is not in the middle of an execution
Idle ==
    [pc |-> "idle", job |-> NoJob, integration |-> NoIntegration, calls |-> <<>>,
     client |-> NoAnswer]

Free(w) == workers[w] = Idle

\* The record of one execution: the job, what its body raised and called,
\* what the retry decorator made of it, the jobs it submitted, what
\* should_sync / has_repo_access answered ("" when not asked), what the
\* provider's client answered, the time, and the two writable tables as the
\* body found them.
Execution(job, result, answer, client) ==
    [job |-> job, raised |-> result.raised, calls |-> result.calls,
     outcome |-> classify(job.kind, result.raised),
     requeued |-> requeue(job, result.raised),
     submitted |-> result.submitted, answer |-> answer, client |-> client,
     at |-> now, Repository_before |-> Repository, metadata_before |-> metadata]

NoExecution == Execution(NoJob, Returned(<<>>), "", NoAnswer)

Answer(result, name, value) ==
    IF \E n \in 1..Len(result.calls) : result.calls[n] = name
    THEN (IF value THEN "True" ELSE "False") ELSE ""

\* what the installation answered to the should_sync the body asked
Asked(result, should_sync) ==
    IF \E kind \in SyncKinds : Answer(result, should_sync_call(kind), TRUE) # ""
    THEN LET kind == CHOOSE k \in SyncKinds :
                        Answer(result, should_sync_call(k), TRUE) # ""
         IN Answer(result, should_sync_call(kind), should_sync[kind])
    ELSE ""

\* Finish with the jobs of one group handled as a unit: a failure takes the
\* waiting jobs of the same group off the queue
Finish_group_as_unit(job, result, answer, client) ==
    /\ queue' = (IF result.raised = "none"
                 THEN (queue (-) SetToBag({job})) (+) result.submitted
                 ELSE [j \in {k \in BagToSet(queue) : k.group_id # job.group_id}
                          |-> queue[j]])
                  (+) (IF requeue(job, result.raised)
                       THEN SetToBag({[job EXCEPT !.retries = @ + 1]})
                       ELSE EmptyBag)
    /\ Repository' = result.Repository
    /\ metadata' = result.metadata
    /\ last' = Execution(job, result, answer, client)
    /\ UNCHANGED <<tables, now, workers>>

\* Finish with a retry that does not count: the job goes back as it was
Finish_without_counting(job, result, answer, client) ==
    /\ queue' = ((queue (-) SetToBag({job})) (+) result.submitted)
                  (+) (IF requeue(job, result.raised)
                       THEN SetToBag({job})
                       ELSE EmptyBag)
    /\ Repository' = result.Repository
    /\ metadata' = result.metadata
    /\ last' = Execution(job, result, answer, client)
    /\ UNCHANGED <<tables, now, workers>>

\* A worker takes job off the queue and runs it: the body's writes are
\* stored, the jobs it submitted are queued, and a retry puts the job back
\* with request.retries + 1.
Finish(job, result, answer, client) ==
    /\ queue' = ((queue (-) SetToBag({job})) (+) result.submitted)
                  (+) (IF requeue(job, result.raised)
                       THEN SetToBag({[job EXCEPT !.retries = @ + 1]})
                       ELSE EmptyBag)
    /\ Repository' = result.Repository
    /\ metadata' = result.metadata
    /\ last' = Execution(job, result, answer, client)
    /\ UNCHANGED <<tables, now, workers>>

Taken(kind) == {j \in BagToSet(queue) : j.kind = kind}

RunPostComment ==
    \E job \in Taken("post_comment"), should_sync \in [SyncKinds -> BOOLEAN],
       call \in CallOutcomes :
        LET result == post_comment(job, should_sync, call) IN
        Finish(job, result, Asked(result, should_sync), NoAnswer)

RunSyncMetadata ==
    \E job \in Taken("sync_metadata"),
       call \in {"ok", "IntegrationError", "Exception"} :
        Finish(job, sync_metadata(job, call), "", NoAnswer)

RunSyncAssigneeOutbound ==
    \E job \in Taken("sync_assignee_outbound"),
       should_sync \in [SyncKinds -> BOOLEAN], call \in CallOutcomes :
        LET result == sync_assignee_outbound(job, should_sync, call) IN
        Finish(job, result, Asked(result, should_sync), NoAnswer)

RunSyncStatusOutbound ==
    \E job \in Taken("sync_status_outbound"),
       should_sync \in [SyncKinds -> BOOLEAN], call \in CallOutcomes :
        LET result == sync_status_outbound(job, should_sync, call) IN
        Finish(job, result, Asked(result, should_sync), NoAnswer)

RunKickOffStatusSyncs ==
    \E job \in Taken("kick_off_status_syncs"), query \in CallOutcomes :
        Finish(job, kick_off_status_syncs(job, query), "", NoAnswer)

RunMigrateRepo ==
    \E job \in Taken("migrate_repo"), has_repo_access \in BOOLEAN,
       migrator \in CallOutcomes :
        LET result == migrate_repo(job, has_repo_access, migrator) IN
        Finish(job, result, Answer(result, "has_repo_access", has_repo_access),
               NoAnswer)

RunVstsSubscriptionCheck ==
    \E job \in Taken("vsts_subscription_check"), client \in ClientAnswers :
        LET result == vsts_subscription_check(job.integration_id, job.integration,
                                              client) IN
        Finish(job, result, "", IF result.calls = <<>> THEN NoAnswer ELSE client)

RunKickoffVstsSubscriptionCheck ==
    \E job \in Taken("kickoff_vsts_subscription_check"), first \in FirstDue,
       client \in ClientAnswers :
        LET result == kickoff_vsts_subscription_check(first, client) IN
        Finish(job, result, "", IF result.calls = <<>> THEN NoAnswer ELSE client)

\* Time passes while no job is waiting: a job and its retries
\* (default_retry_delay of 5 minutes, 5 retries) take less than one step of
\* the clock.  Where executions are followed call by call, one step of the
\* clock between two calls stands for any lapse that makes two readings of
\* datetime.now() differ.
Tick ==
    /\ queue = EmptyBag
    /\ now < UpdateIntervalHours + MaxTime * TickHours
    /\ now' = now + TickHours
    /\ UNCHANGED <<tables, Repository, metadata, queue, workers, last>>

\* A caller's apply_async / delay: one externally submitted job at a time,
\* while a worker is free to take it.  last is the latest execution since
\* that submission.
Submit(jobs) ==
    /\ queue = EmptyBag
    /\ \E w \in Workers : Free(w)
    /\ \E job \in jobs : queue' = SetToBag({job})
    /\ last' = NoExecution
    /\ UNCHANGED <<tables, Repository, metadata, now, workers>>

SubmitPostComment == Submit(PostCommentJobs)
SubmitSyncMetadata == Submit(SyncMetadataJobs)
SubmitSyncAssigneeOutbound == Submit(SyncAssigneeJobs)
SubmitSyncStatusOutbound == Submit(SyncStatusJobs)
SubmitKickOffStatusSyncs == Submit(KickOffJobs)
SubmitMigrateRepo == Submit(MigrateRepoJobs)
SubmitKickoffVstsSubscriptionCheck == Submit({KickoffVstsJob})
\* the caller hands the job the Integration object it holds
SubmitVstsSubscriptionCheck ==
    Submit({VstsCheckJob(oi.integration, oi.organization_id, metadata[oi.integration]) :
                oi \in organization_integrations})

\* At-least-once delivery: the queue hands the job that was just executed to
\* a worker once more, with the same keyword arguments and request.retries.
Redeliver ==
    /\ queue = EmptyBag
    /\ last.job # NoJob
    /\ queue' = SetToBag({last.job})
    /\ UNCHANGED <<tables, Repository, metadata, now, workers, last>>

\* ------------------------------------- the subscription check, line by line
\* Several workers consume the 'integrations' queue, so two executions of
\* vsts_subscription_check can be in progress at once.  Here an execution is
\* its calls one at a time: get_subscription (260), update_subscription and
\* the assignment of 'check' to the object the execution holds (268-272),
\* integration.save() (273).  The check runs as a job of its own or in place
\* inside the sweep (241).
\* The execution of worker w ends having raised exc ("none": it returned).
\* A check run in place by the sweep that returns hands the sweep None, and
\* .apply_async of None raises AttributeError.
End(w, running, exc, waiting) ==
    LET raised ==
            IF /\ running.job.kind = "kickoff_vsts_subscription_check"
               /\ running.integration # NoIntegration
               /\ exc = "none"
            THEN "AttributeError" ELSE exc
    IN /\ workers' = [workers EXCEPT ![w] = Idle]
       /\ queue' = waiting (+) (IF requeue(running.job, raised)
                                THEN SetToBag({[running.job EXCEPT !.retries = @ + 1]})
                                ELSE EmptyBag)
       /\ last' = Execution(running.job, Result(raised, running.calls), "",
                            running.client)

\* save(): the row of the integration becomes the object the execution
\* holds, unless the stored check is the later one
save_keeping_later(integration) ==
    [metadata EXCEPT ![integration.id] =
        IF @.check > integration.metadata.check THEN @ ELSE integration.metadata]

\* integration.save(): the row of the integration becomes the object the
\* execution holds, whatever the row holds by then
save(integration) ==
    [metadata EXCEPT ![integration.id] = integration.metadata]

\* a worker takes a vsts_subscription_check job: lines 257-259
StartVstsSubscriptionCheck(w) ==
    /\ Free(w)
    /\ \E job \in Taken("vsts_subscription_check") :
        LET running == [Idle EXCEPT
                            !.job = job,
                            !.integration = [id |-> job.integration_id,
                                             metadata |-> job.integration]]
            waiting == queue (-) SetToBag({job})
        IN IF ~job.integration.subscription
           THEN End(w, running, "KeyError", waiting)
           ELSE /\ workers' = [workers EXCEPT ![w] =
                                  [running EXCEPT !.pc = "get_subscription"]]
                /\ queue' = waiting
                /\ UNCHANGED last
    /\ UNCHANGED <<tables, Repository, metadata, now>>

\* a worker takes the sweep: lines 221-241 up to the call of the check on the
\* first row the loop does not skip, with the Integration the query loaded
StartKickoffVstsSubscriptionCheck(w) ==
    /\ Free(w)
    /\ \E job \in Taken("kickoff_vsts_subscription_check"), first \in FirstDue :
        LET waiting == queue (-) SetToBag({job}) IN
        IF first = NoRow
        THEN End(w, [Idle EXCEPT !.job = job], "none", waiting)
        ELSE /\ workers' = [workers EXCEPT ![w] =
                               [Idle EXCEPT
                                   !.pc = "get_subscription",
                                   !.job = job,
                                   !.integration =
                                       [id |-> first.integration,
                                        metadata |-> metadata[first.integration]]]]
             /\ queue' = waiting
             /\ UNCHANGED last
    /\ UNCHANGED <<tables, Repository, metadata, now>>

\* what the provider's client raises of its own: the two API errors
ApiFailures == {"ApiError", "ApiUnauthorized"}

\* lines 260-267
GetSubscription(w) ==
    /\ workers[w].pc = "get_subscription"
    /\ \E answer \in ApiFailures \cup SubscriptionStatus :
        LET running == [workers[w] EXCEPT
                            !.calls = Append(@, "get_subscription"),
                            !.client = IF answer \in ApiFailures
                                       THEN [@ EXCEPT !.get = answer]
                                       ELSE [@ EXCEPT !.get = "ok", !.status = answer]]
        IN IF answer \in ApiFailures THEN End(w, running, answer, queue)
           ELSE IF answer # "disabledBySystem" THEN End(w, running, "none", queue)
           ELSE /\ workers' = [workers EXCEPT ![w] =
                                  [running EXCEPT !.pc = "update_subscription"]]
                /\ UNCHANGED <<queue, last>>
    /\ UNCHANGED <<tables, Repository, metadata, now>>

\* lines 268-272
UpdateSubscription(w) ==
    /\ workers[w].pc = "update_subscription"
    /\ \E answer \in {"ok"} \cup ApiFailures :
        LET running == [workers[w] EXCEPT
                            !.calls = Append(@, "update_subscription"),
                            !.client = [@ EXCEPT !.update = answer]]
        IN IF answer # "ok" THEN End(w, running, answer, queue)
           ELSE /\ workers' = [workers EXCEPT ![w] =
                                  [running EXCEPT !.pc = "save",
                                                  !.integration.metadata.check = now]]
                /\ UNCHANGED <<queue, last>>
    /\ UNCHANGED <<tables, Repository, metadata, now>>

\* line 273
Save(w) ==
    /\ workers[w].pc = "save"
    /\ metadata' = save(workers[w].integration)
    /\ End(w, [workers[w] EXCEPT !.calls = Append(@, "save")], "none", queue)
    /\ UNCHANGED <<tables, Repository, now>>

\* ------------------------------------------------------------ the tables
OrganizationOf(e) == 1
IntegrationOf(e) == ((e - 1) % MaxIntegration) + 1
ProviderOf(i) == IF i = 1 THEN "vsts" ELSE "jira"

ExternalIssueRows(ids) ==
    [e \in ids |-> [organization_id |-> OrganizationOf(e),
                    integration_id |-> IntegrationOf(e)]]
IntegrationRows(ids) == [i \in ids |-> [provider |-> ProviderOf(i)]]
\* group g is of project g; a group's organization is a foreign key
GroupRows(ids, status) ==
    [g \in ids |-> [status |-> status, project_id |-> g, organization |-> 1]]

\* rows of (project 1, group 1): one issue link per external issue and a
\* commit link; and an issue link of (project 2, group 2)
LinkRows ==
    {[project_id |-> 1, group_id |-> 1, linked_type |-> "issue", linked_id |-> e] :
        e \in ExternalIssueIds}
    \cup {[project_id |-> 1, group_id |-> 1, linked_type |-> "commit", linked_id |-> 1],
          [project_id |-> 2, group_id |-> 2, linked_type |-> "issue", linked_id |-> 1]}
Repo0 == [integration_id |-> None, provider |-> "github", status |-> VISIBLE]
Metadata0 == [i \in IntegrationIds |-> NoMetadata]

\* The issue-sync tasks against every combination of entities that resolve.
InitSync ==
    /\ ExternalIssue \in {ExternalIssueRows(ids) : ids \in SUBSET ExternalIssueIds}
    /\ Integration \in {IntegrationRows(ids) : ids \in SUBSET IntegrationIds}
    /\ Organization \in SUBSET OrganizationIds
    /\ features \in SUBSET Organization
    /\ User \in SUBSET UserIds
    /\ Group \in {GroupRows(ids, s) :
                    ids \in {g \in SUBSET {1} : Organization # {} \/ g = {}},
                    s \in GroupStatus}
    /\ GroupLink = {}
    /\ Repository = [r \in RepositoryIds |-> Repo0]
    /\ OrganizationIntegration = {}
    /\ metadata = Metadata0
    /\ now = UpdateIntervalHours
    /\ queue = EmptyBag
    /\ workers = [w \in Workers |-> Idle]
    /\ last = NoExecution

NextSync ==
    \/ SubmitPostComment
    \/ SubmitSyncMetadata
    \/ SubmitSyncAssigneeOutbound
    \/ SubmitSyncStatusOutbound
    \/ RunPostComment
    \/ RunSyncMetadata
    \/ RunSyncAssigneeOutbound
    \/ RunSyncStatusOutbound

SpecSync == InitSync /\ [][NextSync]_vars

\* The fan-out against every set of GroupLink rows, all entities resolving.
InitFanout ==
    /\ ExternalIssue = ExternalIssueRows(ExternalIssueIds)
    /\ Integration = IntegrationRows(IntegrationIds)
    /\ Organization = OrganizationIds
    /\ features = OrganizationIds
    /\ User = UserIds
    /\ Group \in {GroupRows(GroupIds, s) : s \in GroupStatus}
    /\ GroupLink \in SUBSET LinkRows
    /\ Repository = [r \in RepositoryIds |-> Repo0]
    /\ OrganizationIntegration = {}
    /\ metadata = Metadata0
    /\ now = UpdateIntervalHours
    /\ queue = EmptyBag
    /\ workers = [w \in Workers |-> Idle]
    /\ last = NoExecution

NextFanout ==
    \/ SubmitKickOffStatusSyncs
    \/ RunKickOffStatusSyncs
    \/ RunSyncStatusOutbound

SpecFanout == InitFanout /\ [][NextFanout]_vars

\* The repository migration against every repository and binding.
RepositoryRows ==
    {[integration_id |-> None, provider |-> "github", status |-> s] :
        s \in ObjectStatus}
    \cup {[integration_id |-> i, provider |-> provider_tag(ProviderOf(i)),
           status |-> s] : i \in IntegrationIds, s \in ObjectStatus}

InitRepo ==
    /\ ExternalIssue = ExternalIssueRows(ExternalIssueIds)
    /\ Integration \in {IntegrationRows(ids) : ids \in SUBSET IntegrationIds}
    /\ Organization \in SUBSET OrganizationIds
    /\ features \in SUBSET Organization
    /\ User = UserIds
    /\ Group = GroupRows({}, UNRESOLVED)
    /\ GroupLink = {}
    /\ Repository \in {[r \in ids |-> row] :
                          ids \in SUBSET RepositoryIds, row \in RepositoryRows}
    /\ OrganizationIntegration = {}
    /\ metadata = Metadata0
    /\ now = UpdateIntervalHours
    /\ queue = EmptyBag
    /\ workers = [w \in Workers |-> Idle]
    /\ last = NoExecution

NextRepo ==
    \/ SubmitMigrateRepo
    \/ RunMigrateRepo

SpecRepo == InitRepo /\ [][NextRepo]_vars

\* The subscription sweep against every subscription record, every
\* integration of provider vsts or the last one of another provider.
MetadataRows ==
    {NoMetadata}
    \cup {[subscription |-> TRUE, check |-> c] :
            c \in {NoCheck} \cup {UpdateIntervalHours - k * TickHours : k \in 1..2}}

InitVsts ==
    /\ ExternalIssue = ExternalIssueRows(ExternalIssueIds)
    /\ Integration \in {[i \in IntegrationIds |->
                            [provider |-> IF i \in other THEN "jira" ELSE "vsts"]] :
                                other \in {{}, {MaxIntegration}}}
    /\ Organization = OrganizationIds
    /\ features = OrganizationIds
    /\ User = UserIds
    /\ Group = GroupRows({}, UNRESOLVED)
    /\ GroupLink = {}
    /\ Repository = [r \in RepositoryIds |-> Repo0]
    /\ OrganizationIntegration =
          {[organization_id |-> 1, integration |-> i] : i \in IntegrationIds}
    /\ metadata \in [IntegrationIds -> MetadataRows]
    /\ now = UpdateIntervalHours
    /\ queue = EmptyBag
    /\ workers = [w \in Workers |-> Idle]
    /\ last = NoExecution

NextVsts ==
    \/ Tick
    \/ SubmitKickoffVstsSubscriptionCheck
    \/ SubmitVstsSubscriptionCheck
    \/ RunKickoffVstsSubscriptionCheck
    \/ RunVstsSubscriptionCheck

SpecVsts == InitVsts /\ [][NextVsts]_vars

\* Two workers on the checks of one vsts integration whose subscription is
\* due, submitted as jobs or run by the sweep; the clock may advance between
\* any two calls.
InitRace ==
    /\ ExternalIssue = ExternalIssueRows(ExternalIssueIds)
    /\ Integration = [i \in IntegrationIds |-> [provider |-> "vsts"]]
    /\ Organization = OrganizationIds
    /\ features = OrganizationIds
    /\ User = UserIds
    /\ Group = GroupRows({}, UNRESOLVED)
    /\ GroupLink = {}
    /\ Repository = [r \in RepositoryIds |-> Repo0]
    /\ OrganizationIntegration = {[organization_id |-> 1, integration |-> 1]}
    /\ metadata = [i \in IntegrationIds |-> [subscription |-> TRUE, check |-> NoCheck]]
    /\ now = UpdateIntervalHours
    /\ queue = EmptyBag
    /\ workers = [w \in Workers |-> Idle]
    /\ last = NoExecution

NextRace ==
    \/ Tick
    \/ SubmitKickoffVstsSubscriptionCheck
    \/ SubmitVstsSubscriptionCheck
    \/ \E w \in Workers : StartVstsSubscriptionCheck(w)
    \/ \E w \in Workers : StartKickoffVstsSubscriptionCheck(w)
    \/ \E w \in Workers : GetSubscription(w)
    \/ \E w \in Workers : UpdateSubscription(w)
    \/ \E w \in Workers : Save(w)

SpecRace == InitRace /\ [][NextRace]_vars

\* Every task at once, all entities resolving, every subscription due and
\* the links of the first external issue.
Init ==
    /\ ExternalIssue = ExternalIssueRows(ExternalIssueIds)
    /\ Integration = [i \in IntegrationIds |-> [provider |-> "vsts"]]
    /\ Organization = OrganizationIds
    /\ features = OrganizationIds
    /\ User = UserIds
    /\ Group = GroupRows(GroupIds, UNRESOLVED)
    /\ GroupLink = {l \in LinkRows : l.linked_id = 1}
    /\ Repository = [r \in RepositoryIds |-> Repo0]
    /\ OrganizationIntegration =
          {[organization_id |-> 1, integration |-> i] : i \in IntegrationIds}
    /\ metadata = [i \in IntegrationIds |-> [subscription |-> TRUE, check |-> NoCheck]]
    /\ now = UpdateIntervalHours
    /\ queue = EmptyBag
    /\ workers = [w \in Workers |-> Idle]
    /\ last = NoExecution

Next ==
    \/ SubmitPostComment
    \/ SubmitSyncMetadata
    \/ SubmitSyncAssigneeOutbound
    \/ SubmitSyncStatusOutbound
    \/ SubmitKickOffStatusSyncs
    \/ SubmitMigrateRepo
    \/ SubmitKickoffVstsSubscriptionCheck
    \/ SubmitVstsSubscriptionCheck
    \/ RunPostComment
    \/ RunSyncMetadata
    \/ RunSyncAssigneeOutbound
    \/ RunSyncStatusOutbound
    \/ RunKickOffStatusSyncs
    \/ RunMigrateRepo
    \/ RunKickoffVstsSubscriptionCheck
    \/ RunVstsSubscriptionCheck

Spec == Init /\ [][Next]_vars

\* The workers keep consuming the queue: a waiting job is eventually taken
\* and run (a retry waits default_retry_delay, 5 minutes at most).
Run ==
    \/ RunPostComment
    \/ RunSyncMetadata
    \/ RunSyncAssigneeOutbound
    \/ RunSyncStatusOutbound
    \/ RunKickOffStatusSyncs
    \/ RunMigrateRepo
    \/ RunKickoffVstsSubscriptionCheck
    \/ RunVstsSubscriptionCheck

SpecFair == Init /\ [][Next]_vars /\ WF_vars(Run)

\* Every task at once, with jobs delivered a second time.
NextRedelivery ==
    \/ Next
    \/ Redeliver

SpecRedelivery == Init /\ [][NextRedelivery]_vars

\* ------------------------------------------------------------- the claims
Ran(kind) == last.job.kind = kind
Called(name) == \E n \in 1..Len(last.calls) : last.calls[n] = name

\* the calls that act on the tracker, the provider, the stored entities or
\* the analytics sink
SideEffects ==
    {"create_comment", "sync_assignee_outbound", "sync_status_outbound",
     "sync_metadata", "save", "Migrator.run", "update_subscription",
     "analytics.record"}
Quiet ==
    /\ \A n \in 1..Len(last.calls) : last.calls[n] \notin SideEffects
    /\ Repository = last.Repository_before
    /\ metadata = last.metadata_before

IssueSyncKinds == {"post_comment", "sync_assignee_outbound", "sync_status_outbound"}

\* the ExternalIssue of the executed job, or its Integration, does not resolve
LinkMissing ==
    LET e == last.job.external_issue_id IN
    \/ e \notin DOMAIN ExternalIssue
    \/ ExternalIssue[e].integration_id \notin DOMAIN Integration

\* C1: an execution of post_comment, sync_assignee_outbound or
\* sync_status_outbound whose ExternalIssue or whose Integration does not
\* resolve makes no installation call, records no analytics and is not
\* queued again.
C1_MissingLinkAborts ==
    (last.job.kind \in IssueSyncKinds /\ LinkMissing) =>
        (Quiet /\ ~last.requeued)

\* the organization the executed issue-sync job consults resolves and does
\* not have the feature flag
FlagOff ==
    \/ /\ last.job.kind \in {"post_comment", "sync_assignee_outbound"}
       /\ last.job.external_issue_id \in DOMAIN ExternalIssue
       /\ ExternalIssue[last.job.external_issue_id].organization_id
             \in Organization \ features
    \/ /\ Ran("sync_status_outbound")
       /\ last.job.group_id \in DOMAIN Group
       /\ Group[last.job.group_id].organization \notin features

\* C2 as stated: with the flag off, none of the five operations makes a
\* side-effecting call, writes an entity or records analytics.
C2_FlagOffAllFiveQuiet ==
    /\ FlagOff => Quiet
    /\ (Ran("sync_metadata") /\ features = {}) => Quiet
    /\ (Ran("migrate_repo") /\ last.job.organization_id \notin features) => Quiet

\* C2: with the flag off for the organization the job consults, an execution
\* of post_comment, sync_assignee_outbound or sync_status_outbound makes no
\* side-effecting call, writes no entity and records no analytics, whatever
\* should_sync would answer.
C2_FlagOffIssueSyncQuiet == FlagOff => Quiet

C2_Witness ==
    /\ Ran("post_comment")
    /\ FlagOff
    /\ ~LinkMissing
    /\ last.raised = "none"

\* C3: a kick_off_status_syncs execution whose query returns submits exactly
\* one sync_status_outbound job per GroupLink row of linked_type issue of its
\* (project_id, group_id), carrying group_id and the row's linked_id, and
\* nothing else; no such row, no job.
C3_OneJobPerIssueLink ==
    (Ran("kick_off_status_syncs") /\ last.raised = "none") =>
        LET g == last.job.group_id
            rows == {l \in GroupLink : /\ l.project_id = last.job.project_id
                                       /\ l.group_id = g
                                       /\ l.linked_type = "issue"}
        IN /\ BagCardinality(last.submitted) = Cardinality(rows)
           /\ \A l \in rows :
                CopiesIn(SyncStatusJob(g, l.linked_id), last.submitted) = 1
           /\ \A j \in BagToSet(last.submitted) :
                /\ j.kind = "sync_status_outbound"
                /\ j.group_id = g
                /\ \E l \in rows : j.external_issue_id = l.linked_id

C3_Witness ==
    /\ Ran("kick_off_status_syncs")
    /\ last.job.project_id = 1
    /\ BagCardinality(last.submitted) = 2
    /\ \E l \in GroupLink : l.linked_type = "commit"
    /\ \E l \in GroupLink : l.project_id = 2

\* C4 as stated: no job is executed more than 5 times.
C4_AtMostFiveExecutions == last.job.retries + 1 <= 5

\* C4: a job is executed at most 1 + max_retries = 6 times, the first
\* attempt and 5 retries: no execution and no queued job is past the sixth,
\* and the sixth execution is never queued again.
C4_AtMostSixExecutions ==
    /\ last.job.retries + 1 <= 5 + 1
    /\ \A j \in BagToSet(queue) : j.retries + 1 <= 5 + 1
    /\ (last.job.retries + 1 = 5 + 1) => ~last.requeued

C4_Witness ==
    /\ Ran("kick_off_status_syncs")
    /\ last.job.retries + 1 = 5 + 1
    /\ last.outcome = "retry"
    /\ ~last.requeued

SweptRows ==
    {oi \in OrganizationIntegration : Integration[oi.integration].provider = "vsts"}
WasDue(oi) ==
    LET m == last.metadata_before[oi.integration] IN
    /\ m.subscription
    /\ (m.check = NoCheck \/ last.at - m.check >= 6)
SubmittedFor(oi) ==
    \E j \in BagToSet(last.submitted) :
        /\ j.kind = "vsts_subscription_check"
        /\ j.integration_id = oi.integration

\* C6: an execution of kickoff_vsts_subscription_check submits a
\* vsts_subscription_check job for a row exactly when the row has a
\* subscription whose check is absent or at least 6 hours old.
C6_SubmitsExactlyTheDue ==
    Ran("kickoff_vsts_subscription_check") =>
        \A oi \in SweptRows : SubmittedFor(oi) <=> WasDue(oi)

\* C7: an execution of vsts_subscription_check calls update_subscription
\* exactly when get_subscription returned 'disabledBySystem'; when that call
\* returns, the check timestamp is now and the integration is saved; for any
\* other status get_subscription is the only call and the metadata is as it
\* was.
C7_RenewsOnlyDisabledBySystem ==
    Ran("vsts_subscription_check") =>
        LET i == last.job.integration_id IN
        /\ Called("update_subscription") <=>
              (Called("get_subscription") /\ last.client.get = "ok"
                 /\ last.client.status = "disabledBySystem")
        /\ (Called("update_subscription") /\ last.client.update = "ok") =>
              /\ Called("save")
              /\ metadata[i].subscription
              /\ metadata[i].check = last.at
        /\ ~Called("update_subscription") =>
              /\ last.calls \in {<<>>, <<"get_subscription">>}
              /\ metadata = last.metadata_before

C7_Witness ==
    /\ Ran("vsts_subscription_check")
    /\ last.client.status = "disabledBySystem"
    /\ Called("save")
    /\ last.metadata_before[last.job.integration_id].check # last.at
    /\ metadata[last.job.integration_id].check = last.at

\* C8: an execution of migrate_repo in which has_repo_access answered true
\* leaves a DISABLED repository VISIBLE and bound to the given integration
\* and its provider tag, whatever was bound before, and leaves any other
\* status as it was; no execution changes a status other than DISABLED.
C8_MigratesDisabledOnly ==
    (Ran("migrate_repo") /\ last.job.repo_id \in DOMAIN last.Repository_before) =>
        LET before == last.Repository_before[last.job.repo_id]
            after == Repository[last.job.repo_id]
        IN /\ (last.answer = "True" /\ before.status = DISABLED) =>
                 /\ after.status = VISIBLE
                 /\ after.integration_id = last.job.integration_id
                 /\ after.provider =
                      (IF Integration[last.job.integration_id].provider = "vsts"
                       THEN "integrations:vsts" ELSE "integrations:jira")
           /\ before.status # DISABLED => after.status = before.status

C8_Witness ==
    /\ Ran("migrate_repo")
    /\ last.answer = "True"
    /\ last.job.repo_id \in DOMAIN last.Repository_before
    /\ last.Repository_before[last.job.repo_id].status = DISABLED
    /\ last.Repository_before[last.job.repo_id].integration_id
          \notin {None, last.job.integration_id}
    /\ Repository[last.job.repo_id].status = VISIBLE
    /\ Repository[last.job.repo_id].integration_id = last.job.integration_id

\* C9: an execution of sync_status_outbound whose group_id matches no Group
\* of status UNRESOLVED or RESOLVED returns with no call, no analytics
\* record, no failure and no retry.
C9_OtherStatusIsNoOp ==
    (Ran("sync_status_outbound")
        /\ ~(last.job.group_id \in DOMAIN Group
             /\ Group[last.job.group_id].status \in {UNRESOLVED, RESOLVED})) =>
        /\ last.calls = <<>>
        /\ last.raised = "none"
        /\ last.outcome = "return"
        /\ ~last.requeued

C9_Witness ==
    /\ Ran("sync_status_outbound")
    /\ last.job.group_id \in DOMAIN Group
    /\ Group[last.job.group_id].status = IGNORED
    /\ Group[last.job.group_id].organization \in features
    /\ ~LinkMissing
    /\ last.calls = <<>>

\* C10: an execution of kickoff_vsts_subscription_check that finds two or more
\* due rows returns, has submitted a job for every one of them, and has
\* made no client call of its own.
C10_SweepSubmitsForEveryDue ==
    (Ran("kickoff_vsts_subscription_check")
        /\ Cardinality({oi \in SweptRows : WasDue(oi)}) >= 2) =>
        /\ last.raised = "none"
        /\ \A oi \in SweptRows : WasDue(oi) => SubmittedFor(oi)
        /\ last.calls = <<>>

\* C11: whenever an execution of the subscription check reaches
\* integration.save(), the stored metadata of the integration becomes the
\* object that execution holds, whatever another execution stored in the
\* meantime (a later 'check' included), and the save raises nothing: a check
\* job that saved has returned and is not queued again.
C11_LastSaverWins ==
    [][\A w \in Workers :
          (workers[w].pc = "save" /\ workers'[w] = Idle) =>
              /\ metadata'[workers[w].integration.id] = workers[w].integration.metadata
              /\ last'.job = workers[w].job
              /\ (workers[w].job.kind = "vsts_subscription_check") =>
                    (last'.raised = "none" /\ ~last'.requeued)]_vars

\* two executions for integration 1 both read 'disabledBySystem', both
\* called update_subscription and both saved; the one that stamped its
\* 'check' earlier saved last, and the later stamp the other had stored is
\* gone
C11_Witness ==
    /\ Ran("vsts_subscription_check")
    /\ last.job.integration_id = 1
    /\ last.client.status = "disabledBySystem"
    /\ last.calls = <<"get_subscription", "update_subscription", "save">>
    /\ last.raised = "none"
    /\ last.metadata_before[1].check # NoCheck
    /\ last.metadata_before[1].check > metadata[1].check
    /\ metadata[1].check # NoCheck

\* a job whose execution returned is delivered again and executed again,
\* its collaborators answering as they did the first time
SecondExecution ==
    /\ last.job # NoJob
    /\ last.outcome = "return"
    /\ CopiesIn(last.job, queue) = 1
    /\ CopiesIn(last.job, queue') = 0
    /\ last'.job = last.job
    /\ last'.answer = last.answer
    /\ last'.client = last.client

\* C12: executing a job a second time leaves the tracker, the analytics
\* sink and the stored entities as the first execution left them: when the
\* first execution made its installation call and recorded it, the second
\* makes no installation call that returns and emits no analytics record,
\* and it writes no entity.
C12_SecondExecutionAddsNothing ==
    [][SecondExecution =>
          /\ (\E n \in 1..Len(last.calls) : last.calls[n] = "analytics.record") =>
                (\A n \in 1..Len(last'.calls) : last'.calls[n] # "analytics.record")
          /\ Repository' = Repository
          /\ metadata' = metadata]_vars

DoesNotExist ==
    {"ExternalIssue.DoesNotExist", "Integration.DoesNotExist",
     "Organization.DoesNotExist", "User.DoesNotExist", "Repository.DoesNotExist"}

\* C14: an execution whose lookup of a referenced entity fails (ExternalIssue,
\* Integration, Organization, User, Repository) ends the job: it is not
\* queued again; so for post_comment whose ExternalIssue resolves and whose
\* Organization does not.
C14_MissingEntityAborts ==
    last.raised \in DoesNotExist => (last.outcome # "retry" /\ ~last.requeued)

\* the should_sync question and the installation call of each issue-sync task
QuestionOf ==
    [post_comment |-> "should_sync('comment')",
     sync_assignee_outbound |-> "should_sync('outbound_assignee')",
     sync_status_outbound |-> "should_sync('outbound_status')"]
CallOf ==
    [post_comment |-> "create_comment",
     sync_assignee_outbound |-> "sync_assignee_outbound",
     sync_status_outbound |-> "sync_status_outbound"]

\* the organization whose flag the executed issue-sync job consults
FlagOrganization ==
    IF Ran("sync_status_outbound") THEN Group[last.job.group_id].organization
    ELSE ExternalIssue[last.job.external_issue_id].organization_id

\* C15: the calls of an execution of post_comment, sync_assignee_outbound or
\* sync_status_outbound are a prefix of: should_sync of the task's own kind,
\* the installation call, analytics.record.  The installation is asked only
\* with the flag on, called only when it answered true, and the record is
\* emitted exactly when the call returned: once, and not when should_sync
\* answered false or the call raised.
C15_LoadCheckCallRecord ==
    last.job.kind \in IssueSyncKinds =>
        LET q == QuestionOf[last.job.kind]
            c == CallOf[last.job.kind]
        IN /\ last.calls \in {<<>>, <<q>>, <<q, c>>, <<q, c, "analytics.record">>}
           /\ last.calls # <<>> => FlagOrganization \in features
           /\ Called(c) <=> last.answer = "True"
           /\ last.answer = "False" => last.calls = <<q>>
           /\ Called("analytics.record") <=> (Called(c) /\ last.raised = "none")
           /\ last.calls = <<q, c>> => last.raised = "Exception"

\* a sync_assignee_outbound execution that asked, called and recorded
C15_Witness ==
    /\ Ran("sync_assignee_outbound")
    /\ last.answer = "True"
    /\ last.raised = "none"
    /\ last.calls = <<"should_sync('outbound_assignee')", "sync_assignee_outbound",
                      "analytics.record">>

\* C16: an execution of the subscription check or of the sweep in which the
\* provider's client raised ApiError or ApiUnauthorized is not queued again:
\* the failure causes no further get_subscription for the integration.
C16_ApiFailureEndsAttempts ==
    (/\ last.job.kind \in {"vsts_subscription_check",
                            "kickoff_vsts_subscription_check"}
     /\ last.raised \in {"ApiError", "ApiUnauthorized"}) =>
        (last.outcome # "retry" /\ ~last.requeued)

\* what a sweep started now selects: the vsts rows with a subscription whose
\* check is absent or at least 6 hours old
SelectedNow ==
    {oi \in SweptRows :
        /\ metadata[oi.integration].subscription
        /\ \/ metadata[oi.integration].check = NoCheck
           \/ now - metadata[oi.integration].check >= 6}

\* C17: while less than 6 hours have passed since a vsts_subscription_check
\* of an integration found a status other than 'disabledBySystem', a sweep
\* started now does not select that integration.
C17_HealthyNotSelectedAgain ==
    (/\ Ran("vsts_subscription_check")
     /\ last.client.get = "ok"
     /\ last.client.status \in {"enabled", "onProbation"}
     /\ now - last.at < 6) =>
        \A oi \in SelectedNow : oi.integration # last.job.integration_id

\* C18: an execution of migrate_repo whose organization_id resolves to no
\* Organization leaves the Repository as it was (integration_id, provider,
\* status), does not invoke Migrator.run and is not queued again.
C18_MissingOrganizationNoEffect ==
    (Ran("migrate_repo") /\ last.job.organization_id \notin Organization) =>
        /\ Repository = last.Repository_before
        /\ ~Called("save")
        /\ ~Called("Migrator.run")
        /\ ~last.requeued

\* C19: an execution of migrate_repo in which has_repo_access answered false
\* leaves the Repository as it was, makes no other call (no save, no
\* Migrator.run, no lookup of the Organization), returns and is not queued
\* again.
C19_NoAccessNoEffect ==
    (Ran("migrate_repo") /\ last.answer = "False") =>
        /\ Repository = last.Repository_before
        /\ last.calls = <<"has_repo_access">>
        /\ last.raised = "none"
        /\ last.outcome = "return"
        /\ ~last.requeued

\* access refused for a DISABLED repository bound to another integration,
\* the Organization of the job missing
C19_Witness ==
    /\ Ran("migrate_repo")
    /\ last.answer = "False"
    /\ last.job.organization_id \notin Organization
    /\ Repository[last.job.repo_id].status = DISABLED
    /\ Repository[last.job.repo_id].integration_id \notin {None, last.job.integration_id}

\* C20: with workers that keep consuming the queue, the jobs that wait are
\* all eventually done with: the queue empties, whatever the bodies raise,
\* the fan-out job and the sweeper included; and a job whose execution was
\* not granted a retry is not waiting any more.
C20_EveryJobEnds ==
    /\ (queue # EmptyBag) ~> (queue = EmptyBag)
    /\ [][(last' # last /\ last'.job # NoJob /\ ~last'.requeued) =>
             \A j \in BagToSet(queue') :
                [j EXCEPT !.retries = 0] # [last'.job EXCEPT !.retries = 0]]_vars

\* the sweeper at the end of its budget: executed a sixth time, its failure
\* retryable, not queued again, nothing left waiting
C20_Witness ==
    /\ Ran("kickoff_vsts_subscription_check")
    /\ last.job.retries = 5
    /\ last.outcome = "retry"
    /\ ~last.requeued
    /\ queue = EmptyBag

====
